---- MODULE Spec2Model ----
(***************************************************************************)
(* Model of the AIReports wizard component                                 *)
(* (src/Bhujal.io/project/src/pages/AIReports.tsx).                        *)
(*                                                                         *)
(* The React state of the component is the state of the model.  Two       *)
(* specifications are given:                                               *)
(*   Spec          the component driven through its rendered controls:     *)
(*                 an event exists only when the control that raises it    *)
(*                 is rendered and enabled;                                *)
(*   SpecHandlers  the same, except that handleGenerateReport is invoked   *)
(*                 whenever its button is rendered, also while the button  *)
(*                 is disabled, and handleDownloadPDF in every view, as a  *)
(*                 test calling the handlers would do.                     *)
(* React flushes the state updates of a discrete event before the next     *)
(* event is dispatched, so every handler is one atomic step; the part of   *)
(* an async handler after its await is a step of its own.                  *)
(***************************************************************************)
EXTENDS Integers, Sequences, FiniteSets

\* ------------------------------------------------------------------ bounds
NumOptions == 2      \* options modelled per question (prefix of the real list)
NumParams == 2       \* catalog entries modelled (prefix of the real list)
MaxLocLen == 2       \* longest text typed into the location input
MaxPending == 2      \* most Report Service calls outstanding at once
MaxDownloads == 1    \* most PDF renderings outstanding at once

\* ------------------------------------------------------------ option type
\* string | null, ProcessedReport | null: None is null, Some(x) a value.
None == <<>>
Some(x) == <<x>>

\* ---------------------------------------------------------- static tables
Prefix(s, n) == SubSeq(s, 1, IF Len(s) < n THEN Len(s) ELSE n)

Range(s) == {s[i] : i \in 1..Len(s)}

questions ==
  << [id |-> "reportType",
      options |-> Prefix(<< "Groundwater Level Analysis",
                            "Water Quality Assessment",
                            "Aquifer Characterization",
                            "Sustainability Analysis" >>, NumOptions)],
     [id |-> "period",
      options |-> Prefix(<< "Last 6 months",
                            "Last 1 year",
                            "Last 5 years",
                            "Last 10 years" >>, NumOptions)] >>

questionCount == Len(questions)

QuestionIds == {questions[i].id : i \in 1..questionCount}

parameters ==
  Prefix(<< "pH Level",
            "Total Dissolved Solids (TDS)",
            "Chloride Content",
            "Fluoride Level",
            "Nitrate Concentration",
            "Groundwater Level",
            "Recharge Rate",
            "Extraction Rate" >>, NumParams)

\* ------------------------------------------------------------------ text
\* The location is free text: a sequence of characters, " " being whitespace.
LocChars == {" ", "J"}

LocationInputs == UNION {[1..n -> LocChars] : n \in 0..MaxLocLen}

IsSpace(c) == c = " "

RECURSIVE TrimStart(_)
TrimStart(s) ==
  IF s # <<>> /\ IsSpace(Head(s)) THEN TrimStart(Tail(s)) ELSE s

RECURSIVE TrimEnd(_)
TrimEnd(s) ==
  IF s # <<>> /\ IsSpace(s[Len(s)]) THEN TrimEnd(SubSeq(s, 1, Len(s) - 1)) ELSE s

\* String.prototype.trim
Trim(s) == TrimEnd(TrimStart(s))

\* !formData.location.trim() : the empty string is the only falsy string
Blank(s) == Trim(s) = <<>>

\* ------------------------------------------------------- service outcomes
\* What the Report Service promise can reject with: an Error instance with a
\* message (possibly empty), or any other value, with or without a message
\* property.
Failures ==
  { [isError |-> TRUE,  hasMessage |-> TRUE,  message |-> "rate limited"],
    [isError |-> TRUE,  hasMessage |-> TRUE,  message |-> ""],
    [isError |-> FALSE, hasMessage |-> TRUE,  message |-> "rate limited"],
    [isError |-> FALSE, hasMessage |-> FALSE, message |-> ""] }

GenerateFallback == "Failed to generate report"
LocationMessage == "Please enter a location"
DownloadMessage == "Failed to download PDF"

\* The processed report is opaque to the component.
Report == "report"

\* ------------------------------------------------------------------ state
VARIABLES
  currentStep,   \* useState(0)
  isGenerating,  \* useState(false)
  error,         \* useState<string | null>(null)
  reportData,    \* useState<ProcessedReport | null>(null)
  formData,      \* useState<FormData>({...})
  pending,       \* generateReport promises not yet settled
  dlPending,     \* downloadReportAsPDF promises not yet settled
  lastOp,        \* the operation that produced this state
  hadError,      \* whether error was set when that operation began
  rejected,      \* the value the promise rejected with, after a rejection
  toggled        \* bookkeeping of consecutive toggles of one parameter

vars == << currentStep, isGenerating, error, reportData, formData,
           pending, dlPending, lastOp, hadError, rejected, toggled >>

Init ==
  /\ currentStep = 0
  /\ isGenerating = FALSE
  /\ error = None
  /\ reportData = None
  /\ formData = [reportType |-> "", location |-> <<>>, period |-> "",
                 parameters |-> <<>>]
  /\ pending = 0
  /\ dlPending = 0
  /\ lastOp = "mount"
  /\ hadError = FALSE
  /\ rejected = None
  /\ toggled = None


\* ------------------------------------------------------------- rendering
\* renderCurrentStep: which screen the component shows.
View ==
  IF reportData # None THEN "Result"
  ELSE IF currentStep = questionCount THEN "Details"
  ELSE "Question"

\* Mutant: the controls are rendered whether or not a report is shown.
NavVisible_Always == TRUE

\* {!reportData && ( ...Previous / Next / Generate... )}
NavVisible == reportData = None

\* Mutant: Previous is never disabled.
PreviousEnabled_Always == TRUE

\* disabled={currentStep === 0}
PreviousEnabled == currentStep # 0

\* currentStep < questions.length ? <Next> : <Generate Report>
NextShown == currentStep < questionCount

\* Mutant: Next looks at the first question's answer on every screen.
NextEnabled_ChecksFirstQuestion == formData[questions[1].id] # ""

\* Mutant: Next is never disabled.
NextEnabled_Always == TRUE

\* disabled={!formData[questions[currentStep].id]}
NextEnabled == formData[questions[currentStep + 1].id] # ""

\* Mutant: the button forgets the location.
GenerateEnabled_NoLocationCheck ==
  ~(isGenerating \/ Len(formData.parameters) = 0)

\* Mutant: the button forgets the parameter list.
GenerateEnabled_NoParameterCheck ==
  ~(isGenerating \/ Blank(formData.location))

\* Mutant: the button forgets the request in flight.
GenerateEnabled_IgnoresGenerating ==
  ~(Len(formData.parameters) = 0 \/ Blank(formData.location))

\* disabled={isGenerating || formData.parameters.length === 0
\*           || !formData.location.trim()}
GenerateEnabled ==
  ~(isGenerating \/ Len(formData.parameters) = 0 \/ Blank(formData.location))

\* {error && <banner>}: the banner shows a truthy error only
BannerShown == error # None /\ error # Some("")

\* --------------------------------------------------------- pure helpers
\* Mutant: the membership test looks at the first entry only.
Includes_FirstOnly(list, x) == list # <<>> /\ list[1] = x

\* Array.prototype.includes
Includes(list, x) == \E i \in 1..Len(list) : list[i] = x

Filter(list, x) == SelectSeq(list, LAMBDA p : p # x)

\* Mutant: the toggle only ever appends.
Toggle_NeverRemoves(list, x) == Append(list, x)

\* prev.parameters.includes(parameter) ? filter(...) : [...prev.parameters, parameter]
Toggle(list, x) ==
  IF Includes(list, x) THEN Filter(list, x) ELSE Append(list, x)

\* Mutant: the catch block always shows the generic text.
RejectionMessage_AlwaysFallback(err) == GenerateFallback

\* err instanceof Error ? err.message : 'Failed to generate report'
RejectionMessage(err) ==
  IF err.isError THEN err.message ELSE GenerateFallback

\* Bookkeeping: the parameter list before a run of toggles of one name.
NoteToggle(x) ==
  IF toggled # None /\ toggled[1].name = x /\ toggled[1].count = 1
  THEN Some([name |-> x, orig |-> toggled[1].orig, count |-> 2])
  ELSE Some([name |-> x, orig |-> formData.parameters, count |-> 1])

\* Bookkeeping common to every operation.
Record(op) ==
  /\ lastOp' = op
  /\ hadError' = (error # None)

\* ---------------------------------------------------------------- handlers
handleOptionSelect(questionId, value) ==
  /\ formData' = [formData EXCEPT ![questionId] = value]
  /\ error' = None
  /\ Record("selectOption")
  /\ rejected' = None
  /\ toggled' = None
  /\ UNCHANGED << currentStep, isGenerating, reportData, pending, dlPending >>

\* Mutant: the location handler without setError(null).
handleLocationChange_KeepsError(value) ==
  /\ formData' = [formData EXCEPT !.location = value]
  /\ Record("setLocation")
  /\ rejected' = None
  /\ toggled' = None
  /\ UNCHANGED << currentStep, isGenerating, error, reportData, pending,
                  dlPending >>

handleLocationChange(value) ==
  /\ formData' = [formData EXCEPT !.location = value]
  /\ error' = None
  /\ Record("setLocation")
  /\ rejected' = None
  /\ toggled' = None
  /\ UNCHANGED << currentStep, isGenerating, reportData, pending, dlPending >>

handleParameterToggle(parameter) ==
  /\ formData' = [formData EXCEPT !.parameters = Toggle(@, parameter)]
  /\ error' = None
  /\ Record("toggleParameter")
  /\ rejected' = None
  /\ toggled' = NoteToggle(parameter)
  /\ UNCHANGED << currentStep, isGenerating, reportData, pending, dlPending >>

\* Mutant: the handler without setError(null) before the call.
handleGenerateReport_KeepsError ==
  /\ IF Blank(formData.location)
     THEN /\ error' = Some(LocationMessage)
          /\ UNCHANGED << isGenerating, pending >>
     ELSE /\ isGenerating' = TRUE
          /\ pending' = pending + 1
          /\ UNCHANGED error
  /\ Record("generateReport")
  /\ rejected' = None
  /\ toggled' = None
  /\ UNCHANGED << currentStep, reportData, formData, dlPending >>

\* Mutant: the handler without its location check.
handleGenerateReport_NoValidation ==
  /\ isGenerating' = TRUE
  /\ error' = None
  /\ pending' = pending + 1
  /\ Record("generateReport")
  /\ rejected' = None
  /\ toggled' = None
  /\ UNCHANGED << currentStep, reportData, formData, dlPending >>

\* handleGenerateReport up to its await: the validation branch returns, the
\* other one issues the Report Service call.
handleGenerateReport ==
  /\ IF Blank(formData.location)
     THEN /\ error' = Some(LocationMessage)
          /\ UNCHANGED << isGenerating, pending >>
     ELSE /\ isGenerating' = TRUE
          /\ error' = None
          /\ pending' = pending + 1
  /\ Record("generateReport")
  /\ rejected' = None
  /\ toggled' = None
  /\ UNCHANGED << currentStep, reportData, formData, dlPending >>

\* Mutant: the success path without the finally block.
GenerateResolved_NoFinally ==
  /\ pending > 0
  /\ pending' = pending - 1
  /\ reportData' = Some(Report)
  /\ Record("generateResolved")
  /\ rejected' = None
  /\ toggled' = None
  /\ UNCHANGED << currentStep, isGenerating, error, formData, dlPending >>

\* handleGenerateReport after the await resolved: setReportData, finally.
GenerateResolved ==
  /\ pending > 0
  /\ pending' = pending - 1
  /\ reportData' = Some(Report)
  /\ isGenerating' = FALSE
  /\ Record("generateResolved")
  /\ rejected' = None
  /\ toggled' = None
  /\ UNCHANGED << currentStep, error, formData, dlPending >>

\* Mutant: the rejection path without the finally block.
GenerateRejected_NoFinally ==
  /\ pending > 0
  /\ \E err \in Failures :
       /\ error' = Some(RejectionMessage(err))
       /\ rejected' = Some(err)
  /\ pending' = pending - 1
  /\ Record("generateRejected")
  /\ toggled' = None
  /\ UNCHANGED << currentStep, isGenerating, reportData, formData, dlPending >>

\* handleGenerateReport after the await rejected: catch, finally.
GenerateRejected ==
  /\ pending > 0
  /\ \E err \in Failures :
       /\ error' = Some(RejectionMessage(err))
       /\ rejected' = Some(err)
  /\ pending' = pending - 1
  /\ isGenerating' = FALSE
  /\ Record("generateRejected")
  /\ toggled' = None
  /\ UNCHANGED << currentStep, reportData, formData, dlPending >>

\* Mutant: the handler dismisses the error before it starts.
handleDownloadPDF_ClearsError ==
  /\ IF reportData # None
     THEN dlPending' = dlPending + 1
     ELSE UNCHANGED dlPending
  /\ error' = None
  /\ Record("downloadReport")
  /\ rejected' = None
  /\ toggled' = None
  /\ UNCHANGED << currentStep, isGenerating, reportData, formData, pending >>

\* Mutant: the handler without its if (reportData).
handleDownloadPDF_NoGuard ==
  /\ dlPending' = dlPending + 1
  /\ Record("downloadReport")
  /\ rejected' = None
  /\ toggled' = None
  /\ UNCHANGED << currentStep, isGenerating, error, reportData, formData, pending >>

\* handleDownloadPDF up to its await.
handleDownloadPDF ==
  /\ IF reportData # None
     THEN dlPending' = dlPending + 1
     ELSE UNCHANGED dlPending
  /\ Record("downloadReport")
  /\ rejected' = None
  /\ toggled' = None
  /\ UNCHANGED << currentStep, isGenerating, error, reportData, formData, pending >>

DownloadResolved ==
  /\ dlPending > 0
  /\ dlPending' = dlPending - 1
  /\ Record("downloadResolved")
  /\ rejected' = None
  /\ toggled' = None
  /\ UNCHANGED << currentStep, isGenerating, error, reportData, formData, pending >>

DownloadRejected ==
  /\ dlPending > 0
  /\ dlPending' = dlPending - 1
  /\ error' = Some(DownloadMessage)
  /\ Record("downloadRejected")
  /\ rejected' = None
  /\ toggled' = None
  /\ UNCHANGED << currentStep, isGenerating, reportData, formData, pending >>

\* ------------------------------------------------------- rendered controls
\* Mutant: going back also dismisses the error.
Previous_ClearsError ==
  /\ NavVisible
  /\ PreviousEnabled
  /\ currentStep' = currentStep - 1
  /\ error' = None
  /\ Record("previous")
  /\ rejected' = None
  /\ toggled' = None
  /\ UNCHANGED << isGenerating, reportData, formData, pending, dlPending >>

\* onClick={() => setCurrentStep(prev => prev - 1)}
Previous ==
  /\ NavVisible
  /\ PreviousEnabled
  /\ currentStep' = currentStep - 1
  /\ Record("previous")
  /\ rejected' = None
  /\ toggled' = None
  /\ UNCHANGED << isGenerating, error, reportData, formData, pending, dlPending >>

\* onClick={() => setCurrentStep(prev => prev + 1)}
Next ==
  /\ NavVisible
  /\ NextShown
  /\ NextEnabled
  /\ currentStep' = currentStep + 1
  /\ Record("next")
  /\ rejected' = None
  /\ toggled' = None
  /\ UNCHANGED << isGenerating, error, reportData, formData, pending, dlPending >>

\* ReportQuestion (components/ReportQuestion) offers the options it is given
\* and passes the one clicked to onSelect.
ReportQuestionSelects(options) == Range(options)

\* ParameterSelection (components/ParameterSelection) lists the parameters it
\* is given and passes the one clicked to onToggle.
ParameterSelectionToggles(catalog) == Range(catalog)

\* Mutant: the selection is stored under the first question's id.
ClickOption_FirstQuestionId ==
  /\ View = "Question"
  /\ \E value \in ReportQuestionSelects(questions[currentStep + 1].options) :
       handleOptionSelect(questions[1].id, value)

\* <ReportQuestion options={question.options} onSelect={...}/>
ClickOption ==
  /\ View = "Question"
  /\ \E value \in ReportQuestionSelects(questions[currentStep + 1].options) :
       handleOptionSelect(questions[currentStep + 1].id, value)

\* <input value={formData.location} onChange={...}/>
TypeLocation ==
  /\ View = "Details"
  /\ \E value \in LocationInputs : handleLocationChange(value)

\* <ParameterSelection parameters={parameters} onToggle={...}/>
ClickParameter ==
  /\ View = "Details"
  /\ \E parameter \in ParameterSelectionToggles(parameters) :
       handleParameterToggle(parameter)

\* <button onClick={handleGenerateReport} disabled={...}>
ClickGenerate ==
  /\ NavVisible
  /\ ~NextShown
  /\ GenerateEnabled
  /\ pending < MaxPending
  /\ handleGenerateReport

\* <ReportVisualization onDownload={handleDownloadPDF}/>
ClickDownload ==
  /\ View = "Result"
  /\ dlPending < MaxDownloads
  /\ handleDownloadPDF

Next_UI ==
  \/ ClickOption
  \/ TypeLocation
  \/ ClickParameter
  \/ Previous
  \/ Next
  \/ ClickGenerate
  \/ GenerateResolved
  \/ GenerateRejected
  \/ ClickDownload
  \/ DownloadResolved
  \/ DownloadRejected

Spec == Init /\ [][Next_UI]_vars

\* The rendered controls, with every issued Report Service call settling:
\* a promise that is outstanding is eventually resolved or rejected.
SpecSettling ==
  Spec /\ WF_vars(GenerateResolved \/ GenerateRejected)

\* ------------------------------------------- handlers behind the controls
\* The disabled attribute of the Generate Report button is all that keeps a
\* click from handleGenerateReport.  Here the handler runs whenever the button
\* is rendered, enabled or not, so that its own validation decides.
CallGenerateReport ==
  /\ NavVisible
  /\ ~NextShown
  /\ pending < MaxPending
  /\ handleGenerateReport

\* Likewise handleDownloadPDF, which is wired to the report view only: here
\* it runs in every view, so that its own check of reportData decides.
CallDownloadPDF ==
  /\ dlPending < MaxDownloads
  /\ handleDownloadPDF

Next_Handlers ==
  \/ ClickOption
  \/ TypeLocation
  \/ ClickParameter
  \/ Previous
  \/ Next
  \/ CallGenerateReport
  \/ GenerateResolved
  \/ GenerateRejected
  \/ CallDownloadPDF
  \/ DownloadResolved
  \/ DownloadRejected

SpecHandlers == Init /\ [][Next_Handlers]_vars


\* ================================================================= claims
EditOps == {"selectOption", "setLocation", "toggleParameter"}

\* C1: handleGenerateReport invoked while formData.location is blank after
\* trimming issues no Report Service call, sets error to 'Please enter a
\* location' and leaves isGenerating and reportData as they were (false and
\* unset when nothing is in flight), whatever formData.parameters holds.
C1_BlankLocationIssuesNoCall ==
  [][ (lastOp' = "generateReport" /\ Blank(formData.location))
        => /\ pending' = pending
           /\ error' = Some(LocationMessage)
           /\ isGenerating' = isGenerating
           /\ reportData' = reportData
           /\ reportData' = None ]_vars

C1_Witness ==
  /\ lastOp = "generateReport"
  /\ Blank(formData.location)
  /\ formData.location # <<>>
  /\ formData.parameters # <<>>
  /\ error = Some(LocationMessage)
  /\ ~isGenerating
  /\ pending = 0

\* C2: through the rendered controls a Report Service call is issued only
\* from a state where isGenerating is false, the parameter list is non-empty
\* and the location is non-blank; with an empty parameter list the generate
\* action is not available.
C2_CallOnlyWhenGated ==
  /\ [][ pending' > pending
           => /\ ~isGenerating
              /\ Len(formData.parameters) > 0
              /\ ~Blank(formData.location) ]_vars
  /\ [](formData.parameters = <<>> => ~ENABLED ClickGenerate)

C2_Witness ==
  /\ lastOp = "generateReport"
  /\ pending = 1
  /\ isGenerating
  /\ Len(formData.parameters) = NumParams

\* C3: at most one Report Service request is in flight at any time.
C3_AtMostOneInFlight == pending <= 1

C3_Witness ==
  /\ pending = 1
  /\ lastOp = "next"
  /\ currentStep = questionCount
  /\ ~ENABLED ClickGenerate

\* C4: once reportData is set it stays set, the Result view is rendered
\* whatever currentStep and formData are, and no option, parameter, location
\* or navigation action is available any more: only the download operation
\* and its completion occur.
C4_ResultIsTerminal ==
  /\ [][ reportData # None
           => /\ reportData' # None
              /\ lastOp' \in {"downloadReport", "downloadResolved",
                              "downloadRejected"}
              /\ formData' = formData
              /\ currentStep' = currentStep ]_vars
  /\ [](reportData # None
          => /\ View = "Result"
             /\ ~ENABLED ClickOption
             /\ ~ENABLED TypeLocation
             /\ ~ENABLED ClickParameter
             /\ ~ENABLED Previous
             /\ ~ENABLED Next
             /\ ~ENABLED ClickGenerate)

C4_Witness ==
  /\ reportData # None
  /\ currentStep < questionCount
  /\ lastOp = "downloadRejected"

\* C5: 0 <= currentStep <= questionCount + 1 in every reachable state;
\* Previous is unavailable at step 0 and Next is not offered at the Details
\* step, so currentStep never leaves 0..questionCount.
C5_StepBounds ==
  /\ 0 <= currentStep
  /\ currentStep <= questionCount + 1
  /\ currentStep <= questionCount
  /\ (currentStep = 0 => ~ENABLED Previous)
  /\ (currentStep = questionCount => ~ENABLED Next)

C5_Witness ==
  /\ currentStep = 0
  /\ lastOp = "previous"
  /\ formData.period # ""


\* C6: whenever error is set, selectOption, setLocation and toggleParameter
\* each leave it unset, for every argument (a value equal to the current
\* one, a blank location) and also while a report request is in flight.
C6_EditClearsError ==
  (lastOp \in EditOps /\ hadError) => error = None

C6_Witness ==
  /\ lastOp = "setLocation"
  /\ hadError
  /\ error = None
  /\ Blank(formData.location)
  /\ pending > 0

\* C7: toggling the same parameter twice in succession gives back the
\* original set of selected parameters.
C7_ToggleTwiceRestoresSet ==
  (toggled # None /\ toggled[1].count = 2)
    => Range(formData.parameters) = Range(toggled[1].orig)

C7_Witness ==
  /\ toggled # None
  /\ toggled[1].count = 2
  /\ Includes(toggled[1].orig, toggled[1].name)
  /\ formData.parameters # toggled[1].orig

\* C8: when a request issued through the Generate Report button resolves,
\* reportData is set, isGenerating is false and error is unset, whatever the
\* user did while the request was in flight.
C8_SuccessOutcome ==
  lastOp = "generateResolved"
    => /\ reportData # None
       /\ ~isGenerating
       /\ error = None

C8_Witness ==
  /\ lastOp = "generateResolved"
  /\ currentStep < questionCount
  /\ Blank(formData.location)
  /\ formData.parameters = <<>>

\* C9 as stated: after a rejection error is the failure's message, or the
\* generic text when the failure carries no message; reportData stays unset
\* and isGenerating is false.
C9_AsStated ==
  rejected # None
    => /\ error = Some(IF rejected[1].hasMessage THEN rejected[1].message
                       ELSE GenerateFallback)
       /\ reportData = None
       /\ ~isGenerating

\* C9 as amended: after a rejection error is the failure's message when the
\* failure is an Error instance (an empty message included) and the generic
\* text for every other rejected value, also one that carries a message;
\* reportData stays unset and isGenerating is false.
C9_RejectionOutcome ==
  rejected # None
    => /\ rejected[1].isError => error = Some(rejected[1].message)
       /\ ~rejected[1].isError => error = Some(GenerateFallback)
       /\ reportData = None
       /\ ~isGenerating

C9_Witness ==
  /\ rejected # None
  /\ rejected[1].isError
  /\ error = Some("rate limited")
  /\ lastOp = "generateRejected"

\* C10: while a request is in flight currentStep stays at questionCount, so
\* a rejection finds the wizard on the Details screen with the error set.
C10_AsStated ==
  /\ pending > 0 => currentStep = questionCount
  /\ lastOp = "generateRejected" => (View = "Details" /\ error # None)

\* C11: isGenerating is true exactly while a Report Service call has been
\* issued and has neither resolved nor rejected.
C11_GeneratingIffInFlight ==
  isGenerating <=> pending > 0

C11_Witness ==
  /\ isGenerating
  /\ pending = 1
  /\ lastOp = "setLocation"
  /\ Blank(formData.location)

\* C12: formData.reportType is empty or one of the report-type question's
\* options, formData.period is empty or one of the period question's
\* options, and formData.parameters holds only names of the catalog.
C12_FieldsWithinCatalogs ==
  /\ \A i \in 1..questionCount :
        \/ formData[questions[i].id] = ""
        \/ formData[questions[i].id] \in Range(questions[i].options)
  /\ Range(formData.parameters) \subseteq Range(parameters)

C12_Witness ==
  /\ formData.reportType = questions[1].options[NumOptions]
  /\ formData.period = questions[2].options[1]
  /\ Len(formData.parameters) = NumParams
  /\ lastOp = "selectOption"

\* C13: selecting an option stores a non-empty answer for the active
\* question; Next is available on a question screen exactly when that answer
\* is non-empty and advances currentStep by exactly one; at currentStep =
\* questionCount (no report yet) the Details screen with the location input
\* and the parameter checklist is rendered.  So answering and pressing Next
\* for each question in order ends on the Details screen.
C13_AnswerThenNextReachesDetails ==
  /\ [][ lastOp' = "selectOption"
           => formData'[questions[currentStep + 1].id] # "" ]_vars
  /\ [][ lastOp' = "next"
           => /\ currentStep' = currentStep + 1
              /\ formData[questions[currentStep + 1].id] # "" ]_vars
  /\ [](View = "Question"
          => (ENABLED Next <=> formData[questions[currentStep + 1].id] # ""))
  /\ []((reportData = None /\ currentStep = questionCount)
          => /\ View = "Details"
             /\ ENABLED TypeLocation
             /\ ENABLED ClickParameter
             /\ ~ENABLED Next)

C13_Witness ==
  /\ lastOp = "next"
  /\ currentStep = questionCount
  /\ View = "Details"
  /\ formData = [reportType |-> "Water Quality Assessment",
                 location |-> <<>>,
                 period |-> "Last 1 year",
                 parameters |-> <<>>]
  /\ error = None
  /\ pending = 0

\* C14: handleDownloadPDF calls the Report Renderer only when reportData is
\* set; when the renderer fails, error becomes 'Failed to download PDF' and
\* reportData, currentStep, formData and isGenerating are unchanged, the
\* wizard staying in the Result view.
C14_DownloadFailureFrame ==
  /\ [][ dlPending' > dlPending => reportData # None ]_vars
  /\ [][ lastOp' = "downloadReport"
           => UNCHANGED << reportData, currentStep, formData, isGenerating,
                           error >> ]_vars
  /\ [][ lastOp' = "downloadRejected"
           => /\ error' = Some(DownloadMessage)
              /\ UNCHANGED << reportData, currentStep, formData, isGenerating >>
              /\ reportData # None
              /\ View' = "Result" ]_vars

C14_Witness ==
  /\ lastOp = "downloadRejected"
  /\ error = Some(DownloadMessage)
  /\ ~hadError
  /\ reportData # None
  /\ View = "Result"

\* C15: provided every issued Report Service call eventually resolves or
\* rejects, every state with isGenerating true is followed by one with
\* isGenerating false.
C15_GeneratingEnds ==
  isGenerating ~> ~isGenerating

C15_Witness ==
  /\ lastOp = "generateRejected"
  /\ ~isGenerating
  /\ ~hadError
  /\ View = "Details"

\* C16: Previous and Next change only currentStep, by -1 and +1: formData,
\* error, isGenerating and reportData are unchanged, so stored answers stay
\* (and are the value pre-selected on the question screen shown) and a
\* shown error is not cleared by navigating.
C16_NavigationFrame ==
  /\ [][ lastOp' = "previous"
           => /\ currentStep' = currentStep - 1
              /\ UNCHANGED << formData, error, isGenerating, reportData >> ]_vars
  /\ [][ lastOp' = "next"
           => /\ currentStep' = currentStep + 1
              /\ UNCHANGED << formData, error, isGenerating, reportData >> ]_vars

C16_Witness ==
  /\ lastOp = "previous"
  /\ View = "Question"
  /\ hadError
  /\ BannerShown
  /\ formData[questions[currentStep + 1].id] # ""

\* C17: every question before currentStep has a non-empty answer in
\* formData, so every Report Service call carries a non-empty reportType and
\* a non-empty period.
C17_AnsweredBeforeStep ==
  /\ \A i \in 1..currentStep : formData[questions[i].id] # ""
  /\ (lastOp = "generateReport" /\ pending > 0)
       => (formData.reportType # "" /\ formData.period # "")

C17_Witness ==
  /\ lastOp = "generateReport"
  /\ pending = 1
  /\ currentStep = questionCount
  /\ formData.reportType = questions[1].options[1]
  /\ formData.period = questions[2].options[NumOptions]

\* C18: through the rendered controls no state with error = 'Please enter a
\* location' is reached, the Generate Report button being disabled whenever
\* the location is blank.
C18_ValidationErrorUnreachable ==
  /\ error # Some(LocationMessage)
  /\ Blank(formData.location) => ~ENABLED ClickGenerate

C18_Witness ==
  /\ View = "Details"
  /\ lastOp = "setLocation"
  /\ Blank(formData.location)
  /\ formData.location # <<>>
  /\ formData.parameters # <<>>
  /\ ~isGenerating
  /\ ~ENABLED ClickGenerate

\* C19: once a report is shown and a download has failed, error stays
\* 'Failed to download PDF' in every later state: nothing available in the
\* Result view clears it, a later download that succeeds included.
C19_DownloadErrorSticks ==
  [][ (reportData # None /\ error = Some(DownloadMessage))
        => (error' = Some(DownloadMessage) /\ BannerShown') ]_vars

C19_Witness ==
  /\ reportData # None
  /\ lastOp = "downloadResolved"
  /\ hadError
  /\ error = Some(DownloadMessage)

\* C20: formData.parameters never holds the same parameter name twice.
C20_NoDuplicateParameters ==
  \A i, j \in 1..Len(formData.parameters) :
    i # j => formData.parameters[i] # formData.parameters[j]

C20_Witness ==
  /\ lastOp = "toggleParameter"
  /\ Len(formData.parameters) = NumParams
  /\ toggled # None
  /\ toggled[1].count = 2
  /\ Includes(formData.parameters, toggled[1].name)

====
